---- MODULE Spec2Model ----
(***************************************************************************)
(* State-machine model of the browser game engine: the Game loop driver    *)
(* (core/Game.js), the Input manager (core/Input.js), the Player           *)
(* controller (components/Player.js), the Enemy AI (components/Enemy.js)   *)
(* and the startup composition (main.js).                                  *)
(*                                                                         *)
(* Units.  Time is counted in ticks of 1/20 s and length in steps of       *)
(* 1/40 world unit, so that speed * delta (world units) is the integer     *)
(* 2 * speed * ticks and the wander step 0.5 * speed * delta is            *)
(* speed * ticks.  Colours are their 24-bit hex values.  Angles are in      *)
(* microradians and velocities in steps per tick.                          *)
(***************************************************************************)
EXTENDS Integers, Sequences, FiniteSets, TLC

\* ------------------------------------------------------------------ bounds
MaxMove == 2          \* |movementX|, |movementY| of one mousemove event
MaxMovesPerRead == 2  \* locked mousemove events between two reads of the delta
MaxReads == 2         \* consecutive getMouseDelta calls that are recorded
NumEntities == 3      \* generic entities 1..NumEntities (0 is a plain object)
MaxEntities == 3      \* length of Game.entities
MaxPending == 2       \* animate callbacks waiting in requestAnimationFrame
MaxDelta == 2         \* largest clock.getDelta() of a generic frame, in ticks
MaxHealth == 260      \* largest health value explored
MaxPlayerDeaths == 2  \* recorded calls of Player.die
MaxTimer == 30        \* largest timeSinceAttack explored, in ticks
MaxCoord == 200       \* largest |x|, |z| of the enemy explored, in steps
MaxHits == 2          \* calls of Enemy.takeDamage
MaxAttacks == 3       \* attacks of the enemy
NumCallbacks == 2     \* functions that are registered with Game.onUpdate
MaxCallbacks == 2     \* length of Game.updateCallbacks
MaxFrames == 3        \* calls of Player.update

\* ------------------------------------------------------------ Input state
\* staleDelta: the stored delta was recorded before the pointer lock was lost
VARIABLES mouse, pointerLocked, moved, movesSinceRead, returned, keys, staleDelta

inputVars == <<mouse, pointerLocked, moved, movesSinceRead, returned, keys, staleDelta>>

\* ------------------------------------------------------------- Game state
VARIABLES entities, sceneChildren, gameRef, isRunning, rafPending, loop, delta,
          updates, startEntities, removedInTick, updateCallbacks, trace,
          lastRemove

gameVars == <<entities, sceneChildren, gameRef, isRunning, rafPending, loop,
              delta, updates, startEntities, removedInTick, updateCallbacks,
              trace, lastRemove>>

\* ----------------------------------------------------------- Player state
VARIABLES health, score, playerPos, ui, playerDeaths, lastDamage

\* the player's motion: velocity.y, onGround, rotation, this.input, the
\* constructor's options, the camera it drives, and its update calls so far
VARIABLES velocity, onGround, rotation, playerInput, playerCfg, camera, frames

motionVars == <<velocity, onGround, rotation, playerInput, playerCfg, camera, frames>>
playerVars == <<health, score, playerPos, ui, playerDeaths, lastDamage, motionVars>>

\* ------------------------------------------------------------ Enemy state
VARIABLES alive, timeSinceAttack, enemyPos, enemyCfg, color, flashTimers,
          sinceFrame, attacks, hits, removeRequests, dieLog

enemyVars == <<alive, timeSinceAttack, enemyPos, enemyCfg, color, flashTimers,
               sinceFrame, attacks, hits, removeRequests, dieLog>>

\* ---------------------------------------------------------- startup state
VARIABLES pc, spawned, consoleErrors, errorShown, loadingHidden, uiShown,
          uncaught, dom

mainVars == <<pc, spawned, consoleErrors, errorShown, loadingHidden, uiShown,
              uncaught, dom>>

vars == <<inputVars, gameVars, playerVars, enemyVars, mainVars>>

notInput == <<gameVars, playerVars, enemyVars, mainVars>>
notGame == <<inputVars, playerVars, enemyVars, mainVars>>

Zero2 == [x |-> 0, y |-> 0]

Movements == (-MaxMove)..MaxMove
ClientCoords == {0, 1}

\* Input.constructor
InputInit ==
    /\ mouse = [x |-> 0, y |-> 0, deltaX |-> 0, deltaY |-> 0]
    /\ pointerLocked = FALSE
    /\ moved = Zero2
    /\ movesSinceRead = 0
    /\ returned = <<>>
    /\ keys = {}
    /\ staleDelta = FALSE

\* mousemove listener: the value stored for a locked event with movement m
\* when the stored delta was old
LockedDelta(old, m) == m

\* document 'mousemove' listener
MouseMove(mx, my, cx, cy) ==
    /\ IF pointerLocked
         THEN /\ movesSinceRead < MaxMovesPerRead
              /\ mouse' = [mouse EXCEPT !.deltaX = LockedDelta(@, mx),
                                        !.deltaY = LockedDelta(@, my)]
              /\ moved' = [x |-> moved.x + mx, y |-> moved.y + my]
              /\ movesSinceRead' = movesSinceRead + 1
              /\ returned' = <<>>
              /\ staleDelta' = FALSE
         ELSE /\ mouse' = [mouse EXCEPT !.x = cx, !.y = cy]
              /\ UNCHANGED <<moved, movesSinceRead, returned, staleDelta>>
    /\ UNCHANGED <<pointerLocked, keys>>
    /\ UNCHANGED notInput

\* document 'pointerlockchange' listener
PointerLockChange(locked) ==
    /\ pointerLocked' = locked
    /\ staleDelta' = (staleDelta \/ (pointerLocked /\ ~locked /\ movesSinceRead > 0))
    /\ UNCHANGED <<mouse, moved, movesSinceRead, returned, keys>>
    /\ UNCHANGED notInput

\* window 'keydown' and 'keyup' listeners: this.keys[e.code] = true / false
KeyCodes == {"KeyW", "Space"}
KeyDown(code) ==
    /\ keys' = keys \cup {code}
    /\ UNCHANGED <<mouse, pointerLocked, moved, movesSinceRead, returned, staleDelta>>
    /\ UNCHANGED notInput
KeyUp(code) ==
    /\ keys' = keys \ {code}
    /\ UNCHANGED <<mouse, pointerLocked, moved, movesSinceRead, returned, staleDelta>>
    /\ UNCHANGED notInput

\* Input.isKeyDown
IsKeyDown(code) == code \in keys

\* Input.getMouseDelta: the stored delta after the read
DeltaAfterRead_Keep(old) == old
DeltaAfterRead(old) == 0

\* Input.getMouseDelta: the returned object
MouseDeltaResult == [x |-> mouse.deltaX, y |-> mouse.deltaY]

\* the reads since the last locked mousemove, the latest MaxReads of them
LastReads(s) == IF Len(s) > MaxReads THEN Tail(s) ELSE s

\* Input.getMouseDelta, as a change of the manager's variables
ReadMouseDelta ==
    /\ returned' = LastReads(Append(returned,
                                    [ret |-> MouseDeltaResult, sum |-> moved,
                                     events |-> movesSinceRead]))
    /\ mouse' = [mouse EXCEPT !.deltaX = DeltaAfterRead(@),
                              !.deltaY = DeltaAfterRead(@)]
    /\ moved' = Zero2
    /\ movesSinceRead' = 0
    /\ staleDelta' = FALSE

\* input.getMouseDelta() called on its own
GetMouseDelta ==
    /\ ReadMouseDelta
    /\ UNCHANGED <<pointerLocked, keys>>
    /\ UNCHANGED notInput

InputNext ==
    \/ \E mx \in Movements, my \in Movements, cx \in ClientCoords, cy \in ClientCoords :
          MouseMove(mx, my, cx, cy)
    \/ \E locked \in BOOLEAN : PointerLockChange(locked)
    \/ GetMouseDelta

\* ------------------------------------------------------------------- Game
\* Entities: 0 is a plain object without mesh, init or update; 1..NumEntities
\* are generic entities with all three; the composed game's ground, player
\* and enemy follow.
PlainId == 0
GroundId == 100
PlayerId == 101
EnemyId == 102
EnemyCount == 5
EnemyIds == EnemyId..(EnemyId + EnemyCount - 1)
GenericIds == 0..NumEntities
AllIds == GenericIds \cup {GroundId, PlayerId} \cup EnemyIds
None == -1

HasMesh(e) == e # PlainId
HasInit(e) == e # PlainId
\* init(game) of Ground, Player and Enemy stores this.game
InitStoresGame(e) == e \in {GroundId, PlayerId} \cup EnemyIds
HasUpdate(e) == e # PlainId

Range(s) == {s[i] : i \in 1..Len(s)}
NoDup(s) == \A i, j \in 1..Len(s) : s[i] = s[j] => i = j
Min(a, b) == IF a <= b THEN a ELSE b
Max(a, b) == IF a >= b THEN a ELSE b

\* Array.prototype.indexOf: 0-based index of the first occurrence, or -1
IndexOf(s, e) ==
    IF \E i \in 1..Len(s) : s[i] = e
      THEN (CHOOSE i \in 1..Len(s) : s[i] = e /\ \A j \in 1..(i - 1) : s[j] # e) - 1
      ELSE -1

\* Array.prototype.splice(index, 1)
Splice1(s, index) ==
    [i \in 1..(Len(s) - 1) |-> IF i <= index THEN s[i] ELSE s[i + 1]]

\* Game.add: this.entities.push(entity)
AddPush(es, e) == Append(es, e)
\* Game.add: this.scene.add(entity.mesh) (Object3D.add keeps a child once)
AddMesh(children, e) == IF HasMesh(e) THEN children \cup {e} ELSE children
\* Game.add: entity.init(this) stores the game reference
AddInit(refs, e) == IF HasInit(e) /\ InitStoresGame(e) THEN refs \cup {e} ELSE refs

\* Game.remove
RemoveSplice_NoGuard(es, e) ==
    IF IndexOf(es, e) > -1 THEN Splice1(es, IndexOf(es, e))
                           ELSE SubSeq(es, 1, Len(es) - 1)
RemoveSplice(es, e) ==
    IF IndexOf(es, e) > -1 THEN Splice1(es, IndexOf(es, e)) ELSE es
RemoveMesh(children, es, e) ==
    IF IndexOf(es, e) > -1 /\ HasMesh(e) THEN children \ {e} ELSE children

ZeroCount == [e \in AllIds |-> 0]
Idle == [phase |-> "idle", k |-> 0, len |-> 0]
Deltas == 0..MaxDelta
CallbackIds == 1..NumCallbacks

\* what Game.animate does, in the order it does it: entity.update(delta, this),
\* callback(delta), this.renderer.render(scene, camera), or the early return
Event(ev, id, d) == [ev |-> ev, id |-> id, d |-> d]
\* the last call of Game.remove: its argument and what indexOf returned
NoRemove == [entity |-> None, index |-> -1]
RemoveCall(es, e) == [entity |-> e, index |-> IndexOf(es, e)]

\* Game.constructor
GameInit ==
    /\ entities = <<>>
    /\ sceneChildren = {}
    /\ gameRef = {}
    /\ isRunning = FALSE
    /\ rafPending = 0
    /\ loop = Idle
    /\ delta = 0
    /\ updates = ZeroCount
    /\ startEntities = <<>>
    /\ removedInTick = {}
    /\ updateCallbacks = <<>>
    /\ trace = <<>>
    /\ lastRemove = NoRemove

tickVars == <<isRunning, rafPending, loop, delta, updates, startEntities,
              removedInTick, updateCallbacks, trace, lastRemove>>
\* the state of the frame loop and the record of the frame
frameVars == <<isRunning, rafPending, loop, delta, updates, startEntities,
               removedInTick>>

\* game.add(e) called between frames
GameAdd(e) ==
    /\ loop.phase = "idle"
    /\ Len(entities) < MaxEntities
    /\ entities' = AddPush(entities, e)
    /\ sceneChildren' = AddMesh(sceneChildren, e)
    /\ gameRef' = AddInit(gameRef, e)
    /\ trace' = <<>>
    /\ lastRemove' = NoRemove
    /\ UNCHANGED <<frameVars, updateCallbacks>>
    /\ UNCHANGED notGame

\* game.remove(e) called between frames
GameRemove(e) ==
    /\ loop.phase = "idle"
    /\ entities' = RemoveSplice(entities, e)
    /\ sceneChildren' = RemoveMesh(sceneChildren, entities, e)
    /\ trace' = <<>>
    /\ lastRemove' = RemoveCall(entities, e)
    /\ UNCHANGED <<frameVars, updateCallbacks, gameRef>>
    /\ UNCHANGED notGame

\* game.onUpdate(c) called between frames
GameOnUpdate(c) ==
    /\ loop.phase = "idle"
    /\ Len(updateCallbacks) < MaxCallbacks
    /\ updateCallbacks' = Append(updateCallbacks, c)
    /\ trace' = <<>>
    /\ lastRemove' = NoRemove
    /\ UNCHANGED <<frameVars, entities, sceneChildren, gameRef>>
    /\ UNCHANGED notGame

\* Game.animate up to the start of the forEach over this.entities
AnimateEnter_NoGuard(d) ==
    /\ delta' = d
    /\ loop' = [phase |-> "forEach", k |-> 0, len |-> Len(entities)]
    /\ updates' = ZeroCount
    /\ startEntities' = entities
    /\ removedInTick' = {}
    /\ trace' = <<>>
AnimateEnter(d) ==
    IF ~isRunning'
      THEN /\ trace' = <<Event("return", None, 0)>>
           /\ UNCHANGED <<loop, delta, updates, startEntities, removedInTick>>
      ELSE /\ delta' = d
           /\ loop' = [phase |-> "forEach", k |-> 0, len |-> Len(entities)]
           /\ updates' = ZeroCount
           /\ startEntities' = entities
           /\ removedInTick' = {}
           /\ trace' = <<>>

\* Game.start
GameStart(d) ==
    /\ loop.phase = "idle"
    /\ rafPending < MaxPending
    /\ isRunning' = TRUE
    /\ rafPending' = rafPending + 1
    /\ AnimateEnter(d)
    /\ lastRemove' = NoRemove
    /\ UNCHANGED <<entities, sceneChildren, gameRef, updateCallbacks>>
    /\ UNCHANGED notGame

\* Game.stop called between frames
GameStop ==
    /\ loop.phase = "idle"
    /\ isRunning' = FALSE
    /\ trace' = <<>>
    /\ lastRemove' = NoRemove
    /\ UNCHANGED <<entities, sceneChildren, gameRef, rafPending, loop, delta,
                   updates, startEntities, removedInTick, updateCallbacks>>
    /\ UNCHANGED notGame

\* a callback scheduled with requestAnimationFrame runs Game.animate
AnimateFrame(d) ==
    /\ loop.phase = "idle"
    /\ rafPending > 0
    /\ UNCHANGED isRunning
    /\ rafPending' = IF isRunning THEN rafPending ELSE rafPending - 1
    /\ AnimateEnter(d)
    /\ lastRemove' = NoRemove
    /\ UNCHANGED <<entities, sceneChildren, gameRef, updateCallbacks>>
    /\ UNCHANGED notGame

\* forEach: is index k (0-based) visited, given the array as it is now
Visits(es, k) == k < Len(es)
\* forEach: the index visited after index k
NextIndex(k) == k + 1

\* one callback of this.entities.forEach: entity.update(delta, this) of a
\* generic entity, whose hook removes victim from the game (None: nobody)
\* and then, when stops holds, calls game.stop()
AnimateEntity(victim, stops) ==
    /\ loop.phase = "forEach"
    /\ loop.k < loop.len
    /\ loop' = [loop EXCEPT !.k = NextIndex(@)]
    /\ IF Visits(entities, loop.k) /\ HasUpdate(entities[loop.k + 1])
         THEN /\ updates' = [updates EXCEPT ![entities[loop.k + 1]] = @ + 1]
              /\ trace' = Append(trace, Event("update", entities[loop.k + 1], delta))
              /\ isRunning' = (isRunning /\ ~stops)
              /\ IF victim = None
                   THEN /\ lastRemove' = NoRemove
                        /\ UNCHANGED <<entities, sceneChildren, removedInTick>>
                   ELSE /\ entities' = RemoveSplice(entities, victim)
                        /\ sceneChildren' = RemoveMesh(sceneChildren, entities, victim)
                        /\ lastRemove' = RemoveCall(entities, victim)
                        /\ removedInTick' =
                              IF IndexOf(entities, victim) > -1
                                THEN removedInTick \cup {victim} ELSE removedInTick
         ELSE /\ victim = None
              /\ ~stops
              /\ lastRemove' = NoRemove
              /\ UNCHANGED <<updates, entities, sceneChildren, removedInTick,
                             trace, isRunning>>
    /\ UNCHANGED <<gameRef, rafPending, delta, startEntities, updateCallbacks>>
    /\ UNCHANGED notGame

\* Game.animate after the forEach over this.entities
EntitiesDone == loop.phase = "forEach" /\ loop.k = loop.len
\* this.updateCallbacks.forEach: the 0-based index of the next callback
CallbackIndex == IF loop.phase = "callbacks" THEN loop.k ELSE 0
CallbacksLeft ==
    /\ EntitiesDone \/ loop.phase = "callbacks"
    /\ CallbackIndex < Len(updateCallbacks)

\* one callback of this.updateCallbacks.forEach: callback(delta)
AnimateCallback ==
    /\ CallbacksLeft
    /\ loop' = [phase |-> "callbacks", k |-> CallbackIndex + 1,
                len |-> Len(updateCallbacks)]
    /\ trace' = Append(trace, Event("callback", updateCallbacks[CallbackIndex + 1], delta))
    /\ lastRemove' = NoRemove
    /\ UNCHANGED <<entities, sceneChildren, gameRef, isRunning, rafPending, delta,
                   updates, startEntities, removedInTick, updateCallbacks>>
    /\ UNCHANGED notGame

\* Game.animate after both loops: this.renderer.render(scene, camera)
AnimateFinish ==
    /\ EntitiesDone \/ loop.phase = "callbacks"
    /\ ~CallbacksLeft
    /\ loop' = Idle
    /\ trace' = Append(trace, Event("render", None, delta))
    /\ delta' = 0
    /\ updates' = ZeroCount
    /\ startEntities' = <<>>
    /\ removedInTick' = {}
    /\ lastRemove' = NoRemove
    /\ UNCHANGED <<entities, sceneChildren, gameRef, isRunning, rafPending,
                   updateCallbacks>>
    /\ UNCHANGED notGame

GameNext ==
    \/ \E e \in GenericIds : GameAdd(e)
    \/ \E e \in GenericIds : GameRemove(e)
    \/ \E c \in CallbackIds : GameOnUpdate(c)
    \/ \E d \in Deltas : GameStart(d)
    \/ GameStop
    \/ \E d \in Deltas : AnimateFrame(d)
    \/ \E victim \in GenericIds \cup {None}, stops \in BOOLEAN : AnimateEntity(victim, stops)
    \/ AnimateCallback
    \/ AnimateFinish

\* ----------------------------------------------------------------- Player
UnitsPerMeter == 40
TicksPerSecond == 20

DefaultHealth == 100
\* the health option of the constructor; 0 stands for an omitted option
HealthOptions == {0, 40, 100, 250, -10}
\* the amounts passed to takeDamage
Amounts == {-10, 0, 5, 10, 150}

\* options.x || dflt
OrDefault(opt, dflt) == IF opt = 0 THEN dflt ELSE opt

NoCall == [prev |-> 0, amount |-> 0, calls |-> 0]
NoUi == [health |-> None, score |-> None]

DefaultPlayerSpeed == 5
DefaultJumpForce == 10
DefaultSensitivity == 2000   \* 0.002 rad per pixel, in microradians
Gravity == -20
HalfPi == 1570796            \* Math.PI / 2, in microradians
WorldBounds == 50
CameraOffsetY == 32          \* 0.8, in steps
GroundY == 40                \* 1, in steps

\* the options of new Player(...): those of main.js, and a quarter turn per
\* pixel with the rest omitted; 0 stands for an omitted option
NoOptions == [speed |-> 0, jumpForce |-> 0, mouseSensitivity |-> 0]
PlayerOptions == {[speed |-> 8, jumpForce |-> 12, mouseSensitivity |-> DefaultSensitivity],
                  [speed |-> 0, jumpForce |-> 0, mouseSensitivity |-> HalfPi]}
NoCamera == [pos |-> [x |-> 0, y |-> 0, z |-> 0], rotation |-> [x |-> 0, y |-> 0]]

\* Player.constructor: the health and the score
PlayerStatsInit(healthOption) ==
    /\ health = OrDefault(healthOption, DefaultHealth)
    /\ score = 0
    /\ playerPos = [x |-> 0, y |-> 0, z |-> 0]
    /\ ui = NoUi
    /\ playerDeaths = 0
    /\ lastDamage = NoCall

\* Player.constructor: the movement and physics properties
PlayerBuilt(options) ==
    /\ playerCfg = [speed |-> OrDefault(options.speed, DefaultPlayerSpeed),
                    jumpForce |-> OrDefault(options.jumpForce, DefaultJumpForce),
                    mouseSensitivity |-> OrDefault(options.mouseSensitivity, DefaultSensitivity)]
    /\ velocity = 0
    /\ onGround = FALSE
    /\ rotation = [x |-> 0, y |-> 0]
    /\ playerInput = FALSE
    /\ camera = NoCamera
    /\ frames = 0

\* Player.constructor
PlayerInit(healthOption) ==
    /\ PlayerStatsInit(healthOption)
    /\ PlayerBuilt(NoOptions)

\* Player.takeDamage: the clamp after the subtraction
ClampHealth_None(h) == h
ClampHealth(h) == IF h <= 0 THEN 0 ELSE h
\* Player.takeDamage: the new health
HealthAfterDamage(h, amount) == ClampHealth(h - amount)
\* Player.takeDamage: is die() called
DiesAfterDamage(h, amount) == h - amount <= 0

\* Player.takeDamage(amount), as a change of the player's variables
PlayerTakeDamage(amount) ==
    /\ health - amount <= MaxHealth
    /\ health' = HealthAfterDamage(health, amount)
    /\ playerDeaths' = IF DiesAfterDamage(health, amount)
                         THEN Min(playerDeaths + 1, MaxPlayerDeaths) ELSE playerDeaths
    /\ ui' = [health |-> health', score |-> score]
    /\ lastDamage' = [prev |-> health, amount |-> amount, calls |-> 1]
    /\ UNCHANGED <<score, playerPos, motionVars>>

\* player.takeDamage(amount) called on its own
PlayerDamaged(amount) ==
    /\ PlayerTakeDamage(amount)
    /\ UNCHANGED <<inputVars, gameVars, enemyVars, mainVars>>

PlayerStatsNext == \E amount \in Amounts : PlayerDamaged(amount)

\* ------------------------------------------------------------------ Enemy
DefaultSpeed == 2
DefaultDamage == 10
DefaultAttackRange == 2
DefaultAttackCooldown == 1
EnemyColor == 15158332     \* 0xe74c3c
FlashColor == 16711680     \* 0xff0000
FlashDelay == 2            \* 100 ms, in ticks
ScoreAward == 10
BounceMid == 20            \* 0.5, in steps
BounceAmp == 8             \* 0.2, in steps
PlayerStartY == 40         \* 1, in steps

\* constructor options; 0 stands for an omitted option.  Speeds and damage
\* are in world units, attackRange in steps, attackCooldown in ticks.
SpeedOptions == {0, 3}
DamageOptions == {5}
RangeOptions == {0}
CooldownOptions == {0}
TargetOptions == {None, PlayerId}
\* options.position: x of a spawn point [x, 0.5, 0] on the line z = 0
StartXs == {78, 80, 120}
EnemyDeltas == {0, 10, 20}
Sines == {-1, 0, 1}

\* Enemy.constructor, after the player was added to the game
EnemyInit(speedOpt, damageOpt, rangeOpt, cooldownOpt, target, x) ==
    /\ enemyCfg = [speed |-> OrDefault(speedOpt, DefaultSpeed),
                   damage |-> OrDefault(damageOpt, DefaultDamage),
                   attackRange |-> OrDefault(rangeOpt, DefaultAttackRange * UnitsPerMeter),
                   attackCooldown |-> OrDefault(cooldownOpt, DefaultAttackCooldown * TicksPerSecond),
                   target |-> target]
    /\ timeSinceAttack = 0
    /\ color = EnemyColor
    /\ enemyPos = [x |-> x, y |-> BounceMid, z |-> 0]
    /\ alive = TRUE
    /\ flashTimers = <<>>
    /\ sinceFrame = 0
    /\ attacks = 0
    /\ hits = 0
    /\ removeRequests = 0
    /\ dieLog = <<>>

Sign(a) == IF a > 0 THEN 1 ELSE IF a < 0 THEN -1 ELSE 0
Sq(a) == a * a

\* Vector3.length of the planar direction, compared without the square root
PlanarOutOfRange(pos, tpos, range) ==
    Sq(tpos.x - pos.x) + Sq(tpos.z - pos.z) > Sq(range)

\* Vector3.normalize of a direction along one axis
NormalizeAxis(dx, dz) == [x |-> Sign(dx), z |-> Sign(dz)]
OnAxis(pos, tpos) == tpos.x = pos.x \/ tpos.z = pos.z

\* speed * delta, in steps
StepLength(speed, d) == (speed * d * UnitsPerMeter) \div TicksPerSecond

\* Enemy.chaseTarget: the position after the move
ChaseTarget(pos, tpos, cfg, d) ==
    IF PlanarOutOfRange(pos, tpos, cfg.attackRange)
      THEN LET direction == NormalizeAxis(tpos.x - pos.x, tpos.z - pos.z)
           IN [pos EXCEPT !.x = @ + direction.x * StepLength(cfg.speed, d),
                          !.z = @ + direction.z * StepLength(cfg.speed, d)]
      ELSE pos

\* Enemy.tryAttack: Vector3.distanceTo(target) <= attackRange
InAttackRange(pos, tpos, range) ==
    Sq(tpos.x - pos.x) + Sq(tpos.y - pos.y) + Sq(tpos.z - pos.z) <= Sq(range)

\* Enemy.tryAttack: the condition under which attack() is called
AttackFires_NoCooldown(pos, tpos, cfg, timer) ==
    InAttackRange(pos, tpos, cfg.attackRange)
AttackFires(pos, tpos, cfg, timer) ==
    InAttackRange(pos, tpos, cfg.attackRange) /\ timer >= cfg.attackCooldown

\* Enemy.tryAttack: the timer after the attempt
TimerAfterAttempt(fires, timer) == IF fires THEN 0 ELSE timer

\* Enemy.wander: sin and cos of the wall clock are sn and cs
Wander_Still(pos, cfg, d, sn, cs) == pos
Wander(pos, cfg, d, sn, cs) ==
    [pos EXCEPT !.x = @ + sn * (StepLength(cfg.speed, d) \div 2),
                !.z = @ + cs * (StepLength(cfg.speed, d) \div 2)]

\* Enemy.update: the bounce animation, sin of the wall clock is sn
Bounce(pos, sn) == [pos EXCEPT !.y = BounceMid + sn * BounceAmp]

HasTarget == enemyCfg.target # None

\* d ticks pass between the previous frame and this one: no deferred
\* callback that is due earlier is still waiting
FrameAfter(d) ==
    /\ d >= sinceFrame
    /\ \A i \in 1..Len(flashTimers) : flashTimers[i].remaining >= d - sinceFrame
Elapse(timers, t) ==
    [i \in 1..Len(timers) |-> [timers[i] EXCEPT !.remaining = @ - t]]

\* Enemy.update(delta, game) with delta = d
EnemyUpdate(d, bounce, sn, cs) ==
    /\ FrameAfter(d)
    /\ timeSinceAttack + d <= MaxTimer
    /\ delta' = d
    /\ sinceFrame' = 0
    /\ IF ~alive
         THEN /\ flashTimers' = Elapse(flashTimers, d - sinceFrame)
              /\ UNCHANGED <<timeSinceAttack, enemyPos, color, attacks, playerVars>>
         ELSE IF HasTarget
           THEN LET moved1 == ChaseTarget(enemyPos, playerPos, enemyCfg, d)
                    fires == AttackFires(moved1, playerPos, enemyCfg, timeSinceAttack + d)
                IN /\ OnAxis(enemyPos, playerPos)
                   /\ sn = 0 /\ cs = 1
                   /\ enemyPos' = Bounce(moved1, bounce)
                   /\ timeSinceAttack' = TimerAfterAttempt(fires, timeSinceAttack + d)
                   /\ IF fires
                        THEN /\ attacks < MaxAttacks
                             /\ attacks' = attacks + 1
                             /\ PlayerTakeDamage(enemyCfg.damage)
                             /\ color' = FlashColor
                             /\ flashTimers' =
                                   Append(Elapse(flashTimers, d - sinceFrame),
                                          [orig |-> color, remaining |-> FlashDelay])
                        ELSE /\ flashTimers' = Elapse(flashTimers, d - sinceFrame)
                             /\ UNCHANGED <<attacks, color, playerVars>>
           ELSE /\ Sq(sn) + Sq(cs) = 1
                /\ enemyPos' = Bounce(Wander(enemyPos, enemyCfg, d, sn, cs), bounce)
                /\ enemyPos'.x \in (-MaxCoord)..MaxCoord
                /\ enemyPos'.z \in (-MaxCoord)..MaxCoord
                /\ timeSinceAttack' = timeSinceAttack + d
                /\ flashTimers' = Elapse(flashTimers, d - sinceFrame)
                /\ UNCHANGED <<attacks, color, playerVars>>
    /\ UNCHANGED <<alive, enemyCfg, hits, removeRequests, dieLog, inputVars, mainVars,
                   entities, sceneChildren, gameRef, isRunning, rafPending, loop,
                   updates, startEntities, removedInTick, updateCallbacks, trace,
                   lastRemove>>

\* the deferred callback of Enemy.attack runs, 100 ms after the attack
FlashRevert ==
    /\ Len(flashTimers) > 0
    /\ sinceFrame' = sinceFrame + flashTimers[1].remaining
    /\ color' = flashTimers[1].orig
    /\ flashTimers' = Elapse(Tail(flashTimers), flashTimers[1].remaining)
    /\ UNCHANGED <<alive, timeSinceAttack, enemyPos, enemyCfg, attacks, hits,
                   removeRequests, dieLog, inputVars, gameVars, playerVars, mainVars>>

\* Player.addScore
ScoreAfterAdd_Subtract(sc, points) == sc - points
ScoreAfterAdd(sc, points) == sc + points

\* Enemy.die: is game.remove(this) called
DieRemoves(refs) == EnemyId \in refs
\* Enemy.die: is target.addScore called
DieAwards(cfg) == cfg.target # None

\* Enemy.die works on the enemy's flag, the target's score and display and
\* the game's collection, and log lists its statements in the order they ran
DieState == [alive |-> alive, score |-> score, ui |-> ui, entities |-> entities,
             sceneChildren |-> sceneChildren, removeRequests |-> removeRequests,
             lastRemove |-> lastRemove, log |-> <<>>]
\* Enemy.die: this.alive = false
DieKill(ds) == [ds EXCEPT !.alive = FALSE, !.log = Append(@, "alive=false")]
\* Enemy.die: if (this.target && this.target.addScore) this.target.addScore(10)
DieAward(ds, cfg, shown) ==
    IF DieAwards(cfg)
      THEN [ds EXCEPT !.score = ScoreAfterAdd(@, ScoreAward),
                      !.ui = [health |-> shown, score |-> ScoreAfterAdd(ds.score, ScoreAward)],
                      !.log = Append(@, "addScore")]
      ELSE ds
\* Enemy.die: if (this.game) this.game.remove(this)
DieRemove(ds, refs) ==
    IF DieRemoves(refs)
      THEN [ds EXCEPT !.entities = RemoveSplice(@, EnemyId),
                      !.sceneChildren = RemoveMesh(@, ds.entities, EnemyId),
                      !.removeRequests = @ + 1,
                      !.lastRemove = RemoveCall(ds.entities, EnemyId),
                      !.log = Append(@, "remove")]
      ELSE ds
\* Enemy.die
Die_RemoveFirst(ds, cfg, shown, refs) == DieAward(DieRemove(DieKill(ds), refs), cfg, shown)
Die(ds, cfg, shown, refs) == DieRemove(DieAward(DieKill(ds), cfg, shown), refs)

\* Enemy.takeDamage(amount): is die() called
TakeDamageDies(isAlive, amount) == TRUE

\* Enemy.takeDamage(amount)
EnemyTakeDamage(amount) ==
    /\ hits < MaxHits
    /\ hits' = hits + 1
    /\ IF TakeDamageDies(alive, amount)
         THEN LET after == Die(DieState, enemyCfg, health, gameRef)
              IN /\ alive' = after.alive
                 /\ score' = after.score
                 /\ ui' = after.ui
                 /\ entities' = after.entities
                 /\ sceneChildren' = after.sceneChildren
                 /\ removeRequests' = after.removeRequests
                 /\ lastRemove' = after.lastRemove
                 /\ dieLog' = after.log
         ELSE UNCHANGED <<alive, score, ui, entities, sceneChildren, removeRequests,
                          lastRemove, dieLog>>
    /\ UNCHANGED <<timeSinceAttack, enemyPos, enemyCfg, color, flashTimers, sinceFrame,
                   attacks, health, playerPos, playerDeaths, lastDamage, motionVars,
                   inputVars, mainVars,
                   gameRef, isRunning, rafPending, loop, delta, updates,
                   startEntities, removedInTick, updateCallbacks, trace>>

\* game.add(enemy)
GameAddEnemy ==
    /\ Len(entities) < MaxEntities
    /\ entities' = AddPush(entities, EnemyId)
    /\ sceneChildren' = AddMesh(sceneChildren, EnemyId)
    /\ gameRef' = AddInit(gameRef, EnemyId)
    /\ lastRemove' = NoRemove
    /\ UNCHANGED <<frameVars, updateCallbacks, trace, inputVars, playerVars,
                   enemyVars, mainVars>>

\* Player.init: the starting position
PlayerStart == [x |-> 0, y |-> PlayerStartY, z |-> 0]

\* the game after game.add(player), before the enemy is constructed
EnemyGameInit ==
    /\ entities = <<PlayerId>>
    /\ sceneChildren = {PlayerId}
    /\ gameRef = {PlayerId}
    /\ isRunning = FALSE
    /\ rafPending = 0
    /\ loop = Idle
    /\ delta = 0
    /\ updates = ZeroCount
    /\ startEntities = <<>>
    /\ removedInTick = {}
    /\ updateCallbacks = <<>>
    /\ trace = <<>>
    /\ lastRemove = NoRemove
    /\ health = DefaultHealth
    /\ score = 0
    /\ playerPos = PlayerStart
    /\ ui = [health |-> DefaultHealth, score |-> 0]
    /\ playerDeaths = 0
    /\ lastDamage = NoCall
    /\ playerCfg = [speed |-> DefaultPlayerSpeed, jumpForce |-> DefaultJumpForce,
                    mouseSensitivity |-> DefaultSensitivity]
    /\ velocity = 0
    /\ onGround = FALSE
    /\ rotation = [x |-> 0, y |-> 0]
    /\ playerInput = TRUE
    /\ camera = [pos |-> PlayerStart, rotation |-> [x |-> 0, y |-> 0]]
    /\ frames = 0

EnemyNext ==
    \/ \E d \in EnemyDeltas, bounce \in Sines, sn \in Sines, cs \in Sines :
          EnemyUpdate(d, bounce, sn, cs)
    \/ FlashRevert
    \/ \E amount \in Amounts : EnemyTakeDamage(amount)
    \/ GameAddEnemy

\* an enemy that attacks every 0.05 s, spawned within reach of the player,
\* and frames of 0.05 s and 0.1 s
FlashCooldowns == {1}
FlashXs == {70}
FlashDeltas == {1, 2}
FlashNext ==
    \/ \E d \in FlashDeltas, bounce \in Sines : EnemyUpdate(d, bounce, 0, 1)
    \/ FlashRevert
    \/ \E amount \in Amounts : EnemyTakeDamage(amount)
    \/ GameAddEnemy

NoEnemy == EnemyInit(0, 0, 0, 0, None, 0)

\* ---------------------------------------------------------- Player motion
\* Angles are in microradians.  Velocities are in steps per tick, so that
\* v world units per second is 2 * v and gravity * delta is -2 per tick.
PlayerDeltas == {0, 2, 200}
\* movementX and movementY of the mousemove events
PlayerMoves == {<<1, -2>>, <<-1, 2>>}

\* a speed in world units per second, in steps per tick
Velocity(v) == (v * UnitsPerMeter) \div TicksPerSecond
\* this.gravity * delta, in steps per tick
GravityStep(d) == (Gravity * d * UnitsPerMeter) \div (TicksPerSecond * TicksPerSecond)

\* Player.handleInput: Math.max(-Math.PI / 2, Math.min(Math.PI / 2, pitch))
ClampPitch_None(pitch) == pitch
ClampPitch(pitch) == Max(-HalfPi, Min(HalfPi, pitch))

\* Player.handleInput: the rotation after the mouse look
Look(rot, md, sens) ==
    [x |-> ClampPitch(rot.x - md.y * sens), y |-> rot.y - md.x * sens]

\* Player.handleInput: the direction the movement keys ask for
KeyDirection ==
    [x |-> (IF IsKeyDown("KeyD") THEN 1 ELSE 0) - (IF IsKeyDown("KeyA") THEN 1 ELSE 0),
     z |-> (IF IsKeyDown("KeyS") THEN 1 ELSE 0) - (IF IsKeyDown("KeyW") THEN 1 ELSE 0)]

\* cosine and sine of a yaw that is a whole number of quarter turns
QuarterTurn(yaw) == yaw % HalfPi = 0
Cos4(yaw) == CASE (yaw \div HalfPi) % 4 = 0 -> 1
               [] (yaw \div HalfPi) % 4 = 2 -> -1
               [] OTHER -> 0
Sin4(yaw) == CASE (yaw \div HalfPi) % 4 = 1 -> 1
               [] (yaw \div HalfPi) % 4 = 3 -> -1
               [] OTHER -> 0
\* Vector3.applyAxisAngle about the y axis
ApplyAxisAngle(dir, yaw) ==
    [x |-> dir.x * Cos4(yaw) + dir.z * Sin4(yaw),
     z |-> dir.z * Cos4(yaw) - dir.x * Sin4(yaw)]

\* Player.handleInput: the position after the WASD movement
Walk(pos, dir, yaw, speed, d) ==
    IF dir.x = 0 /\ dir.z = 0 THEN pos
    ELSE LET direction == ApplyAxisAngle(NormalizeAxis(dir.x, dir.z), yaw)
         IN [pos EXCEPT !.x = @ + direction.x * StepLength(speed, d),
                        !.z = @ + direction.z * StepLength(speed, d)]

\* Player.handleInput: does the jump start
Jumps_Airborne(grounded) == IsKeyDown("Space")
Jumps(grounded) == IsKeyDown("Space") /\ grounded

\* Player.applyPhysics: height, vertical velocity and ground contact after it
ApplyPhysics_NoFloor(y, vy, grounded, d) ==
    [y |-> y + (vy + GravityStep(d)) * d, vy |-> vy + GravityStep(d),
     onGround |-> grounded]
ApplyPhysics(y, vy, grounded, d) ==
    IF y + (vy + GravityStep(d)) * d <= GroundY
      THEN [y |-> GroundY, vy |-> 0, onGround |-> TRUE]
      ELSE [y |-> y + (vy + GravityStep(d)) * d, vy |-> vy + GravityStep(d),
            onGround |-> grounded]

\* Player.updateCamera: the camera is placed at the position plus the offset
\* turned by the rotation, and takes the rotation
UpdateCamera(cam, refs, pos, rot) ==
    IF PlayerId \in refs THEN [pos |-> pos, rotation |-> rot] ELSE cam

\* Player.checkBounds
ClampBound_None(c) == c
ClampBound(c) == Max(-WorldBounds * UnitsPerMeter, Min(WorldBounds * UnitsPerMeter, c))
CheckBounds(pos) == [pos EXCEPT !.x = ClampBound(@), !.z = ClampBound(@)]

\* player.update(delta, game) with delta = d: handleInput, applyPhysics,
\* updateCamera, checkBounds
PlayerUpdate(d) ==
    /\ frames < MaxFrames
    /\ frames' = frames + 1
    /\ LET looks == playerInput /\ pointerLocked
           rot1 == IF looks THEN Look(rotation, MouseDeltaResult, playerCfg.mouseSensitivity)
                            ELSE rotation
           dir == IF playerInput THEN KeyDirection ELSE [x |-> 0, z |-> 0]
           pos1 == Walk(playerPos, dir, rot1.y, playerCfg.speed, d)
           jump == playerInput /\ Jumps(onGround)
           vy1 == IF jump THEN Velocity(playerCfg.jumpForce) ELSE velocity
           og1 == IF jump THEN FALSE ELSE onGround
           phys == ApplyPhysics(pos1.y, vy1, og1, d)
           pos2 == [pos1 EXCEPT !.y = phys.y]
       IN /\ (dir.x # 0 \/ dir.z # 0) => (OnAxis(dir, [x |-> 0, z |-> 0]) /\ QuarterTurn(rot1.y))
          /\ IF looks THEN ReadMouseDelta
                      ELSE UNCHANGED <<mouse, moved, movesSinceRead, returned, staleDelta>>
          /\ rotation' = rot1
          /\ velocity' = phys.vy
          /\ onGround' = phys.onGround
          /\ camera' = UpdateCamera(camera, gameRef, pos2, rot1)
          /\ playerPos' = CheckBounds(pos2)
    /\ UNCHANGED <<pointerLocked, keys, health, score, ui, playerDeaths, lastDamage,
                   playerInput, playerCfg, gameVars, enemyVars, mainVars>>

\* game.add(player), which runs Player.init(game); hasInput: was game.input set
GameAddPlayer(hasInput) ==
    /\ PlayerId \notin Range(entities)
    /\ entities' = AddPush(entities, PlayerId)
    /\ sceneChildren' = AddMesh(sceneChildren, PlayerId)
    /\ gameRef' = AddInit(gameRef, PlayerId)
    /\ lastRemove' = NoRemove
    /\ playerInput' = hasInput
    /\ playerPos' = PlayerStart
    /\ camera' = UpdateCamera(camera, gameRef', PlayerStart, rotation)
    /\ ui' = [health |-> health, score |-> score]
    /\ UNCHANGED <<frameVars, updateCallbacks, trace, health, score, playerDeaths,
                   lastDamage, velocity, onGround, rotation, playerCfg, frames,
                   inputVars, enemyVars, mainVars>>

PlayerNext ==
    \/ \E code \in KeyCodes : KeyDown(code)
    \/ \E code \in KeyCodes : KeyUp(code)
    \/ \E m \in PlayerMoves : MouseMove(m[1], m[2], 0, 0)
    \/ \E locked \in BOOLEAN : PointerLockChange(locked)
    \/ \E hasInput \in BOOLEAN : GameAddPlayer(hasInput)
    \/ \E d \in PlayerDeltas : PlayerUpdate(d)

\* ---------------------------------------------------------------- main.js
\* the page's elements: which of #error, #loading, #ui-overlay and
\* #instructions exist
Doms == [error : BOOLEAN, loading : BOOLEAN, overlay : BOOLEAN, instructions : BOOLEAN]

\* the block a name is declared in, and whether code in block site sees it
DeclBlock(name) == IF name \in {"hideLoading", "showError", "game", "player"}
                     THEN "try" ELSE "module"
Visible(name, site) == DeclBlock(name) = "module" \/ DeclBlock(name) = site

MainInit ==
    /\ pc = "newGame"
    /\ spawned = 0
    /\ consoleErrors = 0
    /\ errorShown = FALSE
    /\ loadingHidden = FALSE
    /\ uiShown = FALSE
    /\ uncaught = "none"
    /\ dom \in Doms

\* the composition is not running
NoMain ==
    /\ pc = "done"
    /\ spawned = 0
    /\ consoleErrors = 0
    /\ errorShown = FALSE
    /\ loadingHidden = FALSE
    /\ uiShown = FALSE
    /\ uncaught = "none"
    /\ dom = [error |-> TRUE, loading |-> TRUE, overlay |-> TRUE, instructions |-> TRUE]

pageVars == <<spawned, consoleErrors, errorShown, loadingHidden, uiShown, uncaught, dom>>

\* a statement of the try block throws: control goes to the catch clause
Throw ==
    /\ pc' = "catch"
    /\ UNCHANGED <<pageVars, inputVars, gameVars, playerVars, enemyVars>>

\* const game = new Game(); game.input = new Input()
MainNewGame(throws) ==
    /\ pc = "newGame"
    /\ IF throws THEN Throw
       ELSE /\ pc' = "addGround"
            /\ UNCHANGED <<pageVars, inputVars, gameVars, playerVars, enemyVars>>

\* const ground = new Ground({ size: 100 }); game.add(ground)
MainAddGround(throws) ==
    /\ pc = "addGround"
    /\ IF throws THEN Throw
       ELSE /\ pc' = "addPlayer"
            /\ entities' = AddPush(entities, GroundId)
            /\ sceneChildren' = AddMesh(sceneChildren, GroundId)
            /\ gameRef' = AddInit(gameRef, GroundId)
            /\ UNCHANGED <<pageVars, inputVars, tickVars, playerVars, enemyVars>>

\* const player = new Player({...}); game.add(player), which runs Player.init
MainAddPlayer(throws) ==
    /\ pc = "addPlayer"
    /\ IF throws THEN Throw
       ELSE /\ pc' = "spawn"
            /\ entities' = AddPush(entities, PlayerId)
            /\ sceneChildren' = AddMesh(sceneChildren, PlayerId)
            /\ gameRef' = AddInit(gameRef, PlayerId)
            /\ playerCfg' = [speed |-> 8, jumpForce |-> 12,
                             mouseSensitivity |-> DefaultSensitivity]
            /\ playerInput' = TRUE
            /\ playerPos' = PlayerStart
            /\ camera' = UpdateCamera(camera, gameRef', PlayerStart, rotation)
            /\ ui' = [health |-> health, score |-> score]
            /\ UNCHANGED <<pageVars, inputVars, tickVars, health, score,
                           playerDeaths, lastDamage, velocity, onGround, rotation,
                           frames, enemyVars>>

\* one round of the spawn loop: new Enemy({...}); game.add(enemy)
MainSpawnEnemy(throws) ==
    /\ pc = "spawn"
    /\ spawned < EnemyCount
    /\ IF throws THEN Throw
       ELSE /\ spawned' = spawned + 1
            /\ entities' = AddPush(entities, EnemyId + spawned)
            /\ sceneChildren' = AddMesh(sceneChildren, EnemyId + spawned)
            /\ gameRef' = AddInit(gameRef, EnemyId + spawned)
            /\ UNCHANGED <<pc, consoleErrors, errorShown, loadingHidden, uiShown,
                           uncaught, dom, inputVars, tickVars, playerVars, enemyVars>>

\* the obstacles, the scene atmosphere and game.onUpdate
MainDecorate(throws) ==
    /\ pc = "spawn"
    /\ spawned = EnemyCount
    /\ IF throws THEN Throw
       ELSE /\ pc' = "showUi"
            /\ updateCallbacks' = Append(updateCallbacks, 1)
            /\ UNCHANGED <<pageVars, inputVars, entities, sceneChildren, gameRef,
                           frameVars, trace, lastRemove, playerVars, enemyVars>>

\* hideLoading(); then the display of #ui-overlay and #instructions is set,
\* which throws a TypeError when getElementById returns null
MainShowUi ==
    /\ pc = "showUi"
    /\ loadingHidden' = dom.loading
    /\ uiShown' = dom.overlay
    /\ pc' = IF dom.overlay /\ dom.instructions THEN "start" ELSE "catch"
    /\ UNCHANGED <<spawned, consoleErrors, errorShown, uncaught, dom, inputVars,
                   gameVars, playerVars, enemyVars>>

\* game.start(), which runs the first Game.animate inside the try block
MainStart(throws) ==
    /\ pc = "start"
    /\ isRunning' = TRUE
    /\ rafPending' = rafPending + 1
    /\ pc' = IF throws THEN "catch" ELSE "done"
    /\ UNCHANGED <<pageVars, inputVars, entities, sceneChildren, gameRef, loop,
                   delta, updates, startEntities, removedInTick, updateCallbacks,
                   trace, lastRemove, playerVars, enemyVars>>

\* catch (error): is the call showError(...) resolved
CatchCallsShowError == Visible("showError", "catch")

\* catch (error) { console.error(...); showError(...) }
MainCatch ==
    /\ pc = "catch"
    /\ pc' = "failed"
    /\ IF CatchCallsShowError
         THEN /\ consoleErrors' = consoleErrors + 2
              /\ errorShown' = dom.error
              /\ loadingHidden' = (loadingHidden \/ dom.loading)
              /\ UNCHANGED uncaught
         ELSE /\ consoleErrors' = consoleErrors + 1
              /\ uncaught' = "ReferenceError"
              /\ UNCHANGED <<errorShown, loadingHidden>>
    /\ UNCHANGED <<spawned, uiShown, dom, inputVars, gameVars, playerVars, enemyVars>>

MainNext ==
    \/ \E throws \in BOOLEAN : MainNewGame(throws)
    \/ \E throws \in BOOLEAN : MainAddGround(throws)
    \/ \E throws \in BOOLEAN : MainAddPlayer(throws)
    \/ \E throws \in BOOLEAN : MainSpawnEnemy(throws)
    \/ \E throws \in BOOLEAN : MainDecorate(throws)
    \/ MainShowUi
    \/ \E throws \in BOOLEAN : MainStart(throws)
    \/ MainCatch

\* ---------------------------------------------------------- specifications
\* the Input manager alone
InitInput == InputInit /\ GameInit /\ PlayerInit(0) /\ NoEnemy /\ NoMain
SpecInput == InitInput /\ [][InputNext]_vars

\* the Game driver with generic entities
InitGame == GameInit /\ InputInit /\ PlayerInit(0) /\ NoEnemy /\ NoMain
SpecGame == InitGame /\ [][GameNext]_vars

\* the health bookkeeping of a player built with any health option
InitPlayerStats ==
    /\ GameInit /\ InputInit /\ NoEnemy /\ NoMain
    /\ \E h \in HealthOptions : PlayerInit(h)
SpecPlayerStats == InitPlayerStats /\ [][PlayerStatsNext]_vars

\* the motion of a player built with any of the options, driven by the
\* keyboard, the mouse and its update calls
InitPlayer ==
    /\ GameInit /\ InputInit /\ NoEnemy /\ NoMain
    /\ PlayerStatsInit(0)
    /\ \E options \in PlayerOptions : PlayerBuilt(options)
SpecPlayer == InitPlayer /\ [][PlayerNext]_vars

\* one enemy, built with any options, next to an initialised player
InitEnemy ==
    /\ InputInit /\ EnemyGameInit /\ NoMain
    /\ \E sp \in SpeedOptions, dm \in DamageOptions, rg \in RangeOptions,
          cd \in CooldownOptions, tg \in TargetOptions, x \in StartXs :
          EnemyInit(sp, dm, rg, cd, tg, x)
SpecEnemy == InitEnemy /\ [][EnemyNext]_vars

\* one enemy with a short attack cooldown next to an initialised player
InitFlash ==
    /\ InputInit /\ EnemyGameInit /\ NoMain
    /\ \E dm \in DamageOptions, cd \in FlashCooldowns, x \in FlashXs :
          EnemyInit(0, dm, 0, cd, PlayerId, x)
SpecFlash == InitFlash /\ [][FlashNext]_vars

\* one fast enemy spawned outside its attack range of an initialised
\* player, and frames of up to one second
ChaseSpeeds == {10}
ChaseXs == {85, 270}
InitChase ==
    /\ InputInit /\ EnemyGameInit /\ NoMain
    /\ \E sp \in ChaseSpeeds, dm \in DamageOptions, x \in ChaseXs :
          EnemyInit(sp, dm, 0, 0, PlayerId, x)
SpecChase == InitChase /\ [][EnemyNext]_vars

\* the startup composition of main.js
InitMain == MainInit /\ GameInit /\ InputInit /\ PlayerInit(0) /\ NoEnemy
SpecMain == InitMain /\ [][MainNext]_vars

\* ------------------------------------------------------------------ claims
ForEachDone == loop.phase = "forEach" /\ loop.k = loop.len

\* C1: when an entity is removed from the collection during the update pass
\* of a tick, every other entity that was in the collection at the start of
\* the tick has received exactly one update call when the pass ends.
C1_RemovalKeepsOthersUpdated ==
    (ForEachDone /\ NoDup(startEntities) /\ removedInTick # {}) =>
        \A e \in Range(startEntities) \ removedInTick :
            HasUpdate(e) => updates[e] = 1

AnyEnemyUpdate ==
    \E d \in EnemyDeltas, bounce \in Sines, sn \in Sines, cs \in Sines :
        EnemyUpdate(d, bounce, sn, cs)

\* C2: in every update of a live enemy with a target, the attack fires if
\* and only if the distance to the target (measured after the chase move) is
\* at most attackRange and timeSinceAttack plus this frame's delta is at
\* least attackCooldown; the timer is zero after a frame that fires and is
\* the accumulated time after a frame that does not, and no other step of
\* the enemy lowers the timer.
C2_AttackIffInRangeAndCooled ==
    [][/\ timeSinceAttack' < timeSinceAttack => attacks' = attacks + 1
       /\ (AnyEnemyUpdate /\ alive /\ HasTarget) =>
        LET timer == timeSinceAttack + delta'
            distSq == Sq(playerPos.x - enemyPos'.x) + Sq(playerPos.y - enemyPos.y)
                        + Sq(playerPos.z - enemyPos'.z)
            should == distSq <= Sq(enemyCfg.attackRange) /\ timer >= enemyCfg.attackCooldown
        IN /\ (attacks' = attacks + 1) <=> should
           /\ (attacks' = attacks) <=> ~should
           /\ (lastDamage' # lastDamage) => should
           /\ should => health' = Max(0, health - enemyCfg.damage)
           /\ timeSinceAttack' = IF should THEN 0 ELSE timer]_vars

\* an attack has fired on the player and reset the timer
C2_Witness ==
    /\ alive /\ HasTarget
    /\ attacks = 1
    /\ timeSinceAttack = 0
    /\ health = DefaultHealth - enemyCfg.damage

\* C3: over any sequence of takeDamage calls the enemy is dead after the
\* first one and at most one removal request is issued for it.
C3_DiesOnce ==
    /\ hits >= 1 => ~alive
    /\ removeRequests <= 1

\* C4: after Player.takeDamage(amount) health is max(0, previous health -
\* amount), and it is not negative.
C4_HealthClamped ==
    lastDamage.calls = 1 =>
        /\ health = Max(0, lastDamage.prev - lastDamage.amount)
        /\ health >= 0

\* a default player was hit for 150 and reads health 0
C4_Witness ==
    /\ lastDamage = [prev |-> DefaultHealth, amount |-> 150, calls |-> 1]
    /\ health = 0

\* C5: in every state of a player, health lies in [0, 100].
C5_HealthInRange == health \in 0..100

\* C6: every entity appears at most once in Game.entities.
C6_NoDuplicates == NoDup(entities)

\* C7: an entity with a mesh is in Game.entities if and only if its mesh is
\* attached to the scene.
C7_Lockstep ==
    \A e \in AllIds : HasMesh(e) => (e \in Range(entities) <=> e \in sceneChildren)

\* C8: when a step of the startup composition has thrown, the handler has
\* logged it, no exception has escaped, the error region shows the message
\* and the loading indicator is hidden.
C8_ErrorSurfaced ==
    pc = "failed" =>
        /\ uncaught = "none"
        /\ consoleErrors >= 1
        /\ dom.error => errorShown
        /\ dom.loading => loadingHidden

\* C9: getMouseDelta returns the sum of the movements of all pointer-locked
\* mousemove events since the previous call.
C9_Accumulated ==
    \A i \in 1..Len(returned) : returned[i].ret = returned[i].sum

\* C10: right after a getMouseDelta call the stored delta is (0,0), and a
\* call that follows another with no locked mousemove in between returns
\* (0,0).
C10_Drain ==
    /\ Len(returned) >= 1 => mouse.deltaX = 0 /\ mouse.deltaY = 0
    /\ \A i \in 2..Len(returned) : returned[i].ret = Zero2

\* a read returned a real delta and the next read returned zero
C10_Witness ==
    /\ Len(returned) = 2
    /\ returned[1].ret # Zero2
    /\ returned[2].ret = Zero2

\* C13: after Game.stop(), apart from the tick that was executing when stop()
\* was called, no entity is updated, no frame callback is invoked and nothing
\* is rendered until start() is called again: a step that begins between
\* ticks with the running flag off and leaves it off starts no tick and
\* records no update, callback or render.
C13_StoppedLoopIsSilent ==
    [][(~isRunning /\ loop.phase = "idle" /\ ~isRunning') =>
          /\ loop'.phase = "idle"
          /\ \/ trace' = trace
             \/ \A i \in 1..Len(trace') : trace'[i].ev = "return"]_vars
\* a frame that was scheduled before stop() has run and returned at once,
\* with entities and a frame callback waiting
C13_Witness ==
    /\ ~isRunning
    /\ rafPending = 0
    /\ trace = <<Event("return", None, 0)>>
    /\ \E i \in 1..Len(entities) : HasUpdate(entities[i])
    /\ updateCallbacks # <<>>

\* the entities of es that have an update hook, each once, in the order of
\* their first insertion
UpdateOrder(es) ==
    LET f[n \in 0..Len(es)] ==
          IF n = 0 THEN <<>>
          ELSE IF HasUpdate(es[n]) /\ es[n] \notin {es[j] : j \in 1..(n - 1)}
                 THEN Append(f[n - 1], es[n]) ELSE f[n - 1]
    IN f[Len(es)]
\* the tick the driver owes: the updates, the callbacks, the render
ExpectedTick(es, cbs, d) ==
    [i \in 1..Len(UpdateOrder(es)) |-> Event("update", UpdateOrder(es)[i], d)]
      \o [i \in 1..Len(cbs) |-> Event("callback", cbs[i], d)]
      \o <<Event("render", None, d)>>

\* C14: in every tick of Game.animate during which the collection is not
\* mutated, each entity with an update hook is updated exactly once in
\* insertion order, then each registered frame callback is invoked once in
\* registration order, then the scene is rendered once, all with the same
\* elapsed time, the render last.
C14_TickOrder ==
    [][(loop.phase # "idle" /\ loop'.phase = "idle" /\ removedInTick = {}) =>
          trace' = ExpectedTick(startEntities, updateCallbacks, delta)]_vars

\* C19: Game.remove called with an entity that is not in the collection leaves
\* the collection and the meshes attached to the scene unchanged.
C19_RemoveAbsentIsNoOp ==
    [][(lastRemove'.entity # None /\ lastRemove'.index = -1) =>
          (entities' = entities /\ sceneChildren' = sceneChildren)]_vars
\* the last call removed an entity that was not in a collection of two
\* entities with attached meshes
C19_Witness ==
    /\ lastRemove.entity # None
    /\ lastRemove.index = -1
    /\ Len(entities) = 2
    /\ sceneChildren # {}

\* does every a of the log come before every b
Before(log, a, b) ==
    \A i, j \in 1..Len(log) : (log[i] = a /\ log[j] = b) => i < j

\* C15: when an enemy dies it is marked dead, the score award to a target
\* that exposes addScore happens before the removal request, and an enemy
\* that was never initialised with a game reference skips the removal (the
\* collection and the scene stay as they were) while the score is awarded.
C15_AwardBeforeRemoval ==
    [][hits' = hits + 1 =>
          /\ ~alive'
          /\ DieAwards(enemyCfg) =>
                /\ score' = score + ScoreAward
                /\ "addScore" \in Range(dieLog')
                /\ Before(dieLog', "addScore", "remove")
          /\ EnemyId \in gameRef => "remove" \in Range(dieLog')
          /\ EnemyId \notin gameRef =>
                /\ "remove" \notin Range(dieLog')
                /\ entities' = entities
                /\ sceneChildren' = sceneChildren
                /\ removeRequests' = removeRequests]_vars
\* an enemy that was added to the game has died: the award came before the
\* removal
C15_Witness ==
    /\ ~alive
    /\ dieLog = <<"alive=false", "addScore", "remove">>
    /\ score = ScoreAward
    /\ EnemyId \notin Range(entities)

\* C16: the player's score is never negative and never decreases.
C16_ScoreNeverDecreases == [][score >= 0 /\ score' >= score]_vars
\* the player was both attacked and awarded points
C16_Witness ==
    /\ score >= ScoreAward
    /\ attacks >= 1
    /\ health < DefaultHealth

\* C17 as stated: in every frame of a live enemy without a target its
\* position changes, no attack is attempted and the timer is never reset.
C17_PositionChangesEveryFrame ==
    [][(AnyEnemyUpdate /\ alive /\ ~HasTarget) =>
          /\ enemyPos' # enemyPos
          /\ attacks' = attacks
          /\ timeSinceAttack' = timeSinceAttack + delta']_vars

\* C17, amended: in every frame of a live enemy without a target the wander
\* step moves it in the plane exactly when the frame's delta is positive (a
\* frame with delta 0 leaves x and z as they were), no attack is attempted
\* (the player is not damaged, the colour is kept) and the timer is never
\* reset: it grows by the delta.
C17_WanderMovesWhenTimePasses ==
    [][(AnyEnemyUpdate /\ alive /\ ~HasTarget) =>
          /\ (delta' > 0) <=> (enemyPos'.x # enemyPos.x \/ enemyPos'.z # enemyPos.z)
          /\ attacks' = attacks
          /\ timeSinceAttack' = timeSinceAttack + delta'
          /\ health' = health /\ lastDamage' = lastDamage
          /\ color' = color]_vars
\* a targetless enemy has wandered off its spawn point for longer than its
\* cooldown without attacking
C17_Witness ==
    /\ alive /\ ~HasTarget
    /\ enemyPos.z # 0
    /\ timeSinceAttack > enemyCfg.attackCooldown
    /\ attacks = 0
    /\ health = DefaultHealth

\* C18: with the player standing still on the ground, a live enemy that has
\* stopped because it is within attack range of its target attacks as soon as
\* the cooldown has elapsed: it is never left standing in range with the
\* cooldown elapsed.
C18_AttacksOnceInRange ==
    (alive /\ HasTarget /\ ~PlanarOutOfRange(enemyPos, playerPos, enemyCfg.attackRange)) =>
        timeSinceAttack < enemyCfg.attackCooldown

\* C20: once every deferred revert of the attack flash has run, the enemy's
\* colour is the colour it had before the flashes.
C20_FlashReverts == flashTimers = <<>> => color = EnemyColor

\* C11: after every Player.update, whatever the delta, the vertical velocity
\* before it and the keys held (the jump key included), the player's height
\* is never below the ground height 1.
C11_NeverBelowGround == frames >= 1 => playerPos.y >= GroundY
\* the player landed, jumped and is in the air with the jump key held
C11_Witness ==
    /\ frames >= 2
    /\ playerPos.y > GroundY
    /\ velocity > 0
    /\ ~onGround
    /\ IsKeyDown("Space")

\* C12: after every Player.update the pitch rotation.x lies within
\* [-90 degrees, +90 degrees], for any sequence and size of mouse movements.
C12_PitchClamped == rotation.x >= -HalfPi /\ rotation.x <= HalfPi
\* a mouse movement that asked for half a turn left the pitch at the limit
C12_Witness ==
    /\ frames >= 1
    /\ rotation.x = HalfPi
    /\ playerCfg.mouseSensitivity = HalfPi

C25_CameraFollowsPlayer ==
    [][(frames' = frames + 1 /\ PlayerId \in gameRef) =>
         (camera'.pos = playerPos' /\ camera'.rotation = rotation')]_vars

\* C23: at most one animate callback is pending with requestAnimationFrame at
\* any time, also after start() on a running game and after stop() followed
\* by start() before the scheduled frame has fired
C23_OnePendingFrame == rafPending <= 1

\* C24: a mouse movement recorded before the pointer lock was lost does not
\* rotate the player in an update after the lock is acquired again, and an
\* update with the pointer unlocked leaves yaw and pitch unchanged
C24_NoStaleLook ==
    [][frames' = frames + 1 =>
         /\ staleDelta => rotation' = rotation
         /\ ~pointerLocked => rotation' = rotation]_vars

\* C26: in every update of a live enemy that chases the standing player, the
\* planar distance to the player does not grow, and an enemy that is within
\* its attack range keeps its x and z
C26_ChaseNeverRetreats ==
    [][(AnyEnemyUpdate /\ alive /\ HasTarget) =>
         /\ Sq(playerPos.x - enemyPos'.x) + Sq(playerPos.z - enemyPos'.z)
               <= Sq(playerPos.x - enemyPos.x) + Sq(playerPos.z - enemyPos.z)
         /\ ~PlanarOutOfRange(enemyPos, playerPos, enemyCfg.attackRange) =>
               (enemyPos'.x = enemyPos.x /\ enemyPos'.z = enemyPos.z)]_vars
====
